---------------------------- MODULE Spec2Model ----------------------------
(***************************************************************************)
(* Model of haversine.py: the function haversine_distance and the          *)
(* Streamlit script around it.                                             *)
(*                                                                         *)
(* Python floats are modelled as binary floating-point numbers             *)
(* [m |-> mantissa, e |-> exponent] of value m * 2^e, normalised to        *)
(* MantBits significant bits, every operation rounded to nearest, ties to  *)
(* even, as IEEE 754 does for the 53 bits of a Python float.  The          *)
(* exponent is unbounded: no input of the model comes near the overflow or *)
(* underflow of a double.  sin, cos and asin are evaluated in fixed point  *)
(* with FixBits fractional bits and then rounded to MantBits bits.         *)
(***************************************************************************)
EXTENDS Integers, Sequences, FiniteSets, TLC

(***************************************************************************)
(* Bounds of the model.                                                    *)
(***************************************************************************)
MantBits == 14      \* significant bits of a float (53 in CPython)
LatSteps == 2       \* the latitude widget is exercised on LatSteps + 1 values
LonSteps == 4       \* the longitude widget is exercised on LonSteps + 1 values

(***************************************************************************)
(* Integer helpers.                                                        *)
(***************************************************************************)
Abs(n) == IF n < 0 THEN -n ELSE n
Sign(n) == IF n < 0 THEN -1 ELSE 1

RECURSIVE BitLen(_)
BitLen(n) == IF n = 0 THEN 0 ELSE 1 + BitLen(n \div 2)

\* sin, cos and asin are evaluated on fixed-point numbers n / One.  One is
\* the square of HalfLimb, and the product of two halves stays below 2^31,
\* the width of the integers of the model checker.
HalfLimb == 2^14
One == HalfLimb * HalfLimb
FixBits == BitLen(One) - 1


\* floor of the square root of n, 0 <= n < 2^31, one bit at a time from 2^i
\* down (t * t <= n, written without the product, which can pass 2^31)
RECURSIVE ISqrtFrom(_, _, _)
ISqrtFrom(n, acc, i) ==
    IF i < 0 THEN acc
    ELSE LET t == acc + 2^i
         IN  ISqrtFrom(n, IF t <= n \div t THEN t ELSE acc, i - 1)
ISqrt(n) == ISqrtFrom(n, 0, 15)

\* n / d rounded toward zero
Quot(n, d) == Sign(n) * (Abs(n) \div d)

(***************************************************************************)
(* Floats.                                                                 *)
(***************************************************************************)
Zero == [m |-> 0, e |-> 0]

\* The float nearest to N * 2^E (ties to even).  sticky: the exact value is
\* a little above |N| * 2^E (a truncated quotient), which breaks a tie upward.
Round(N, E, sticky) ==
    IF N = 0 THEN Zero
    ELSE LET n == Abs(N)
             b == BitLen(n)
         IN  IF b <= MantBits
             THEN [m |-> Sign(N) * n * 2^(MantBits - b), e |-> E - (MantBits - b)]
             ELSE LET sh == b - MantBits
                      q == n \div 2^sh
                      rest == n % 2^sh
                      half == 2^(sh - 1)
                      up == rest > half \/ (rest = half /\ (sticky \/ q % 2 = 1))
                      q1 == IF up THEN q + 1 ELSE q
                  IN  IF q1 = 2^MantBits
                      THEN [m |-> Sign(N) * 2^(MantBits - 1), e |-> E + sh + 1]
                      ELSE [m |-> Sign(N) * q1, e |-> E + sh]

FromInt(k) == Round(k, 0, FALSE)
Neg(x) == [m |-> -x.m, e |-> x.e]

\* x < y, x <= y on floats (exact comparison of m * 2^e)
Less(x, y) ==
    IF x.m = 0 \/ y.m = 0 \/ Sign(x.m) # Sign(y.m) THEN x.m < y.m
    ELSE IF x.e = y.e THEN x.m < y.m
    ELSE IF x.m > 0 THEN x.e < y.e ELSE x.e > y.e
LessEq(x, y) == x = y \/ Less(x, y)

Mul(x, y) == Round(x.m * y.m, x.e + y.e, FALSE)

\* x / 2 is exact in binary floating point
Half(x) == IF x.m = 0 THEN x ELSE [m |-> x.m, e |-> x.e - 1]

Add(x, y) ==
    IF x.m = 0 THEN y
    ELSE IF y.m = 0 THEN x
    ELSE LET hi == IF x.e >= y.e THEN x ELSE y
             lo == IF x.e >= y.e THEN y ELSE x
             d == hi.e - lo.e
         IN  IF d >= MantBits + 2 THEN hi       \* lo is below a quarter of an ulp of hi
             ELSE Round(hi.m * 2^d + lo.m, lo.e, FALSE)

Sub(x, y) == Add(x, Neg(y))

\* x / y by long division: 30 - MantBits quotient bits, then 8 more
Div(x, y) ==
    IF x.m = 0 THEN x
    ELSE LET k == 30 - MantBits
             n == Abs(x.m) * 2^k
             d == Abs(y.m)
             q1 == n \div d
             r1 == n % d
             q2 == (r1 * 2^8) \div d
             r2 == (r1 * 2^8) % d
         IN  Round(Sign(x.m) * Sign(y.m) * (q1 * 2^8 + q2), x.e - k - 8 - y.e, r2 # 0)

(***************************************************************************)
(* Fixed-point evaluation of the library functions.                        *)
(***************************************************************************)
PiFix == 843314857              \* pi * One, rounded
HalfPiFix == PiFix \div 2

\* a * b / One, truncated; |a|, |b| < 2.5 * One
MulFix(a, b) ==
    LET ah == Abs(a) \div HalfLimb
        al == Abs(a) % HalfLimb
        bh == Abs(b) \div HalfLimb
        bl == Abs(b) % HalfLimb
    IN  Sign(a) * Sign(b) * (ah * bh + ((ah * bl + al * bh) \div HalfLimb))

\* x - x^3/3! + x^5/5! - ...: t is the last term, k counts the terms
RECURSIVE SinTerms(_, _, _, _)
SinTerms(x2, t, k, acc) ==
    IF t = 0 THEN acc
    ELSE LET t1 == -Quot(MulFix(t, x2), (2 * k) * (2 * k + 1))
         IN  SinTerms(x2, t1, k + 1, acc + t1)

\* sin on [-pi/2, pi/2]
SinPoly(x) == SinTerms(MulFix(x, x), x, 1, x)

\* sin of any x, reduced by the period and by sin(pi - x) = sin(x)
SinFix(x) ==
    LET y == Abs(x) % (2 * PiFix)
        z == IF y > PiFix THEN y - PiFix ELSE y
        w == IF z > HalfPiFix THEN PiFix - z ELSE z
        sg == IF y > PiFix THEN -Sign(x) ELSE Sign(x)
    IN  sg * SinPoly(w)

CosFix(x) == SinFix(HalfPiFix - Abs(x))

\* sqrt of w / One, 0 <= w <= One / 4: the integer root of w * 4^k and one
\* correction step from its remainder
SqrtFix(w) ==
    IF w = 0 THEN 0
    ELSE LET k == (31 - BitLen(w)) \div 2
             W == w * 4^k
             root == ISqrt(W)
             rem == W - root * root
             z == root * 2^13 + ((rem * 2^12) \div root)
         IN  z \div 2^(k - 1)

\* z + z^3/6 + 3 z^5/40 + ...: b is the term before its division by 2n + 1
RECURSIVE AsinTerms(_, _, _, _)
AsinTerms(z2, b, n, acc) ==
    IF b = 0 THEN acc
    ELSE AsinTerms(z2, (MulFix(b, z2) * (2 * n + 1)) \div (2 * n + 2), n + 1,
                   acc + (b \div (2 * n + 1)))

AsinSeries(z) == AsinTerms(MulFix(z, z), z, 0, 0)

\* asin on [0, 1]; above 1/2 by asin(x) = pi/2 - 2 asin(sqrt((1 - x) / 2))
AsinFix(x) ==
    IF 2 * x <= One THEN AsinSeries(x)
    ELSE HalfPiFix - 2 * AsinSeries(SqrtFix((One - x) \div 2))

\* the fixed-point number x * One, truncated toward zero
ToFix(x) ==
    LET s == x.e + FixBits
    IN  IF s >= 0 THEN x.m * 2^s
        ELSE IF -s > 30 THEN 0
        ELSE Quot(x.m, 2^(-s))

(***************************************************************************)
(* The functions of Python's math module that haversine_distance calls.    *)
(* sqrt and asin raise ValueError ("math domain error") outside their      *)
(* domain: they return Undefined here.                                     *)
(***************************************************************************)
Undefined == [m |-> 0, e |-> -1]

sin(x) ==
    IF x.m = 0 \/ ToFix(x) = 0 THEN x
    ELSE Round(SinFix(ToFix(x)), -FixBits, FALSE)

cos(x) ==
    IF x.m = 0 THEN FromInt(1)
    ELSE Round(CosFix(ToFix(x)), -FixBits, FALSE)

sqrt(x) ==
    IF x.m < 0 THEN Undefined
    ELSE IF x.m = 0 THEN x
    ELSE LET k == IF (x.e - MantBits) % 2 = 0 THEN MantBits ELSE MantBits - 1
             n == x.m * 2^k
             root == ISqrt(n)        \* MantBits bits: the root is above root + 1/2
                                     \* exactly when n > root^2 + root
         IN  Round(IF n - root * root > root THEN root + 1 ELSE root,
                   (x.e - k) \div 2, FALSE)

asin(x) ==
    IF Less(FromInt(1), x) \/ Less(x, FromInt(-1)) THEN Undefined
    ELSE IF x.m = 0 THEN x
    ELSE LET y == Round(AsinFix(ToFix([m |-> Abs(x.m), e |-> x.e])), -FixBits, FALSE)
         IN  IF x.m < 0 THEN Neg(y) ELSE y

\* math.pi, and the factor pi / 180 of math.radians
pi == Round(PiFix, -FixBits, FALSE)
degToRad == Div(pi, FromInt(180))
radians(x) == Mul(x, degToRad)

(***************************************************************************)
(* haversine_distance.  The result records the value returned (km), the    *)
(* intermediate a, and whether the call raised ValueError.                 *)
(***************************************************************************)
r == 6371

\* x ** 2
Square(x) == Mul(x, x)

\* Distance with the equatorial radius 6378 for r
Distance_equatorial(a) ==
    LET root == sqrt(a)
    IN  IF root = Undefined \/ asin(root) = Undefined
        THEN [raised |-> TRUE, a |-> a, km |-> Zero]
        ELSE [raised |-> FALSE, a |-> a,
              km |-> Mul(Mul(FromInt(2), asin(root)), FromInt(6378))]

\* Distance with c = asin(sqrt(a)), the factor 2 forgotten
Distance_single(a) ==
    LET root == sqrt(a)
    IN  IF root = Undefined \/ asin(root) = Undefined
        THEN [raised |-> TRUE, a |-> a, km |-> Zero]
        ELSE [raised |-> FALSE, a |-> a, km |-> Mul(asin(root), FromInt(r))]

\* lines 19 to 24: c = 2 * asin(sqrt(a)), and c * r
Distance(a) ==
    LET root == sqrt(a)
    IN  IF root = Undefined \/ asin(root) = Undefined
        THEN [raised |-> TRUE, a |-> a, km |-> Zero]
        ELSE [raised |-> FALSE, a |-> a,
              km |-> Mul(Mul(FromInt(2), asin(root)), FromInt(r))]

\* haversine_distance with cos(lat1) * cos(lat1)
haversine_distance_cos1(la1, lo1, la2, lo2) ==
    LET rlat1 == radians(la1)
        rlon1 == radians(lo1)
        rlat2 == radians(la2)
        rlon2 == radians(lo2)
        dlat == Sub(rlat2, rlat1)
        dlon == Sub(rlon2, rlon1)
        a == Add(Square(sin(Half(dlat))),
                 Mul(Mul(cos(rlat1), cos(rlat1)), Square(sin(Half(dlon)))))
    IN  Distance(a)

\* haversine_distance with dlat = lat2 + lat1
haversine_distance_dlat_sum(la1, lo1, la2, lo2) ==
    LET rlat1 == radians(la1)
        rlon1 == radians(lo1)
        rlat2 == radians(la2)
        rlon2 == radians(lo2)
        dlat == Add(rlat2, rlat1)
        dlon == Sub(rlon2, rlon1)
        a == Add(Square(sin(Half(dlat))),
                 Mul(Mul(cos(rlat1), cos(rlat2)), Square(sin(Half(dlon)))))
    IN  Distance(a)

\* haversine_distance with sin(dlon) for sin(dlon/2)
haversine_distance_full_dlon(la1, lo1, la2, lo2) ==
    LET rlat1 == radians(la1)
        rlon1 == radians(lo1)
        rlat2 == radians(la2)
        rlon2 == radians(lo2)
        dlat == Sub(rlat2, rlat1)
        dlon == Sub(rlon2, rlon1)
        a == Add(Square(sin(Half(dlat))),
                 Mul(Mul(cos(rlat1), cos(rlat2)), Square(sin(dlon))))
    IN  Distance(a)

\* lines 13 to 18, then Distance
haversine_distance(la1, lo1, la2, lo2) ==
    LET rlat1 == radians(la1)
        rlon1 == radians(lo1)
        rlat2 == radians(la2)
        rlon2 == radians(lo2)
        dlat == Sub(rlat2, rlat1)
        dlon == Sub(rlon2, rlon1)
        a == Add(Square(sin(Half(dlat))),
                 Mul(Mul(cos(rlat1), cos(rlat2)), Square(sin(Half(dlon)))))
    IN  Distance(a)

(***************************************************************************)
(* Float literals and string formatting.                                   *)
(***************************************************************************)
\* the float nearest to the decimal literal n / d (n, d > 0), by long division
Literal(n, d) ==
    LET k == 30 - BitLen(n)
        q1 == (n * 2^k) \div d
        r1 == (n * 2^k) % d
        j == IF BitLen(d) > BitLen(q1) THEN 30 - BitLen(d) ELSE 30 - BitLen(q1)
        q2 == (r1 * 2^j) \div d
        r2 == (r1 * 2^j) % d
    IN  Round(q1 * 2^j + q2, -(k + j), r2 # 0)

\* f"{x:.2f}": the decimal with two digits nearest to the exact value of x
\* (ties to even), as the integer number of hundredths
Fmt2(x) ==
    LET n == Abs(x.m) * 100
        D == 2^(-x.e)
        q == n \div D
        rest == n % D
    IN  IF x.e >= 0 THEN Sign(x.m) * n * 2^(x.e)
        ELSE IF -x.e > 30 THEN 0
        ELSE IF 2 * rest > D \/ (2 * rest = D /\ q % 2 = 1) THEN Sign(x.m) * (q + 1)
        ELSE Sign(x.m) * q

(***************************************************************************)
(* The Streamlit script.  Streamlit runs the whole script once when the    *)
(* page is opened and once more, from the top, each time a widget's value  *)
(* changes; the four number_input widgets keep their values between runs.  *)
(***************************************************************************)
VARIABLES
    lat1, lon1, lat2, lon2,         \* the values of the four number_input widgets
    exception,                      \* the last run of the script raised
    distance_km, distance_miles,    \* the script's globals of the last run
    center_lat, center_lon,
    metrics,                        \* the two st.metric texts, in hundredths
    map,                            \* the folium map handed to components.html
    args, result, pc                \* a direct call of haversine_distance

appvars == <<lat1, lon1, lat2, lon2, exception, distance_km, distance_miles,
             center_lat, center_lon, metrics, map>>
vars == <<lat1, lon1, lat2, lon2, exception, distance_km, distance_miles,
          center_lat, center_lon, metrics, map, args, result, pc>>

\* value= of the four widgets
lat1_value == Literal(407128, 10000)
lon1_value == Neg(Literal(740060, 10000))
lat2_value == Literal(340522, 10000)
lon2_value == Neg(Literal(1182437, 10000))

\* min_value <= x <= max_value
InRange(x, lo, hi) == LessEq(FromInt(lo), x) /\ LessEq(x, FromInt(hi))
ValidLat(x) == InRange(x, -90, 90)
ValidLon(x) == InRange(x, -180, 180)

\* The values typed into the widgets: LatSteps + 1 latitudes from pole to
\* pole, LonSteps + 1 longitudes around the globe, the latitudes 8 and 6 and
\* their negatives (pairs of antipodes whose a is rounded above, and below,
\* 1), and the values the widgets start with.
LatGrid == {-90 + ((180 * k) \div LatSteps) : k \in 0..LatSteps}
LonGrid == {-180 + ((360 * k) \div LonSteps) : k \in 0..LonSteps}
LatValues == {FromInt(k) : k \in LatGrid \cup {-8, -6, 6, 8}} \cup {lat1_value, lat2_value}
LonValues == {FromInt(k) : k \in LonGrid} \cup {lon1_value, lon2_value}

\* haversine_distance on the values the widgets can hold, tabulated (f @@ << >>
\* is f, written out as a table once)
Inputs == LatValues \X LonValues \X LatValues \X LonValues
Haversine == [x \in Inputs |-> haversine_distance(x[1], x[2], x[3], x[4])] @@ << >>

None == Undefined
NoMap == [location |-> << >>, markers |-> << >>, polyline |-> << >>]

\* One run of the script on the widget values l1, o1, l2, o2 (Script): what
\* it computes and shows (Page).  A ValueError at line 83 ends the run, and
\* nothing below that line is shown (Failed).
Page(l1, o1, l2, o2, km, miles, clat, clon) ==
    [exception |-> FALSE, distance_km |-> km, distance_miles |-> miles,
     center_lat |-> clat, center_lon |-> clon,
     metrics |-> <<Fmt2(km), Fmt2(miles)>>,
     map |-> [location |-> <<clat, clon>>,
              markers |-> <<[location |-> <<l1, o1>>, popup |-> <<l1, o1>>],
                            [location |-> <<l2, o2>>, popup |-> <<l2, o2>>]>>,
              polyline |-> <<[locations |-> <<<<l1, o1>>, <<l2, o2>>>>,
                              popup |-> Fmt2(km)]>>]]

Failed ==
    [exception |-> TRUE, distance_km |-> None, distance_miles |-> None,
     center_lat |-> None, center_lon |-> None, metrics |-> << >>, map |-> NoMap]

\* Show with nautical miles (factor 0.539957) for the miles
Show_nautical(l1, o1, l2, o2, km) ==
    Page(l1, o1, l2, o2, km, Mul(km, Literal(539957, 1000000)),
         Half(Add(l1, l2)), Half(Add(o1, o2)))

\* Show with the map centred on the first coordinate
Show_center_first(l1, o1, l2, o2, km) ==
    Page(l1, o1, l2, o2, km, Mul(km, Literal(621371, 1000000)), l1, o1)

\* lines 84 to 132, after haversine_distance has returned km
Show(l1, o1, l2, o2, km) ==
    Page(l1, o1, l2, o2, km, Mul(km, Literal(621371, 1000000)),
         Half(Add(l1, l2)), Half(Add(o1, o2)))

Run(l1, o1, l2, o2, call) ==
    IF call.raised THEN Failed ELSE Show(l1, o1, l2, o2, call.km)

Script(l1, o1, l2, o2) == Run(l1, o1, l2, o2, Haversine[<<l1, o1, l2, o2>>])

NoResult == [raised |-> FALSE, a |-> Zero, km |-> Zero]

\* the page is opened: the script runs on the widgets' initial values
AppInit ==
    \E out \in {Script(lat1_value, lon1_value, lat2_value, lon2_value)} :
        /\ lat1 = lat1_value /\ lon1 = lon1_value
        /\ lat2 = lat2_value /\ lon2 = lon2_value
        /\ exception = out.exception
        /\ distance_km = out.distance_km /\ distance_miles = out.distance_miles
        /\ center_lat = out.center_lat /\ center_lon = out.center_lon
        /\ metrics = out.metrics /\ map = out.map

Init == AppInit /\ args = << >> /\ result = NoResult /\ pc = "app"

\* Rerun that shows again what it computed for the previous second longitude
Rerun_stale(l1, o1, l2, o2) ==
    \E out \in {Script(l1, o1, l2, lon2)} :
        /\ lat1' = l1 /\ lon1' = o1 /\ lat2' = l2 /\ lon2' = o2
        /\ exception' = out.exception
        /\ distance_km' = out.distance_km /\ distance_miles' = out.distance_miles
        /\ center_lat' = out.center_lat /\ center_lon' = out.center_lon
        /\ metrics' = out.metrics /\ map' = out.map
        /\ UNCHANGED <<args, result, pc>>

\* the script runs again, from the top, on the widget values l1, o1, l2, o2
Rerun(l1, o1, l2, o2) ==
    \E out \in {Script(l1, o1, l2, o2)} :
        /\ lat1' = l1 /\ lon1' = o1 /\ lat2' = l2 /\ lon2' = o2
        /\ exception' = out.exception
        /\ distance_km' = out.distance_km /\ distance_miles' = out.distance_miles
        /\ center_lat' = out.center_lat /\ center_lon' = out.center_lon
        /\ metrics' = out.metrics /\ map' = out.map
        /\ UNCHANGED <<args, result, pc>>

\* the user changes one widget to v
ChangeLat1(v) == pc = "app" /\ v # lat1 /\ ValidLat(v) /\ Rerun(v, lon1, lat2, lon2)
ChangeLon1(v) == pc = "app" /\ v # lon1 /\ ValidLon(v) /\ Rerun(lat1, v, lat2, lon2)
ChangeLat2(v) == pc = "app" /\ v # lat2 /\ ValidLat(v) /\ Rerun(lat1, lon1, v, lon2)
ChangeLon2(v) == pc = "app" /\ v # lon2 /\ ValidLon(v) /\ Rerun(lat1, lon1, lat2, v)

Next ==
    \/ \E v \in LatValues : ChangeLat1(v)
    \/ \E v \in LonValues : ChangeLon1(v)
    \/ \E v \in LatValues : ChangeLat2(v)
    \/ \E v \in LonValues : ChangeLon2(v)

Spec == Init /\ [][Next]_vars

(***************************************************************************)
(* haversine_distance called directly, on coordinates nothing has checked: *)
(* latitudes beyond the poles and longitudes beyond the date line          *)
(* included.                                                               *)
(***************************************************************************)
CallSteps == 1      \* bound: latitudes up to 180 * CallSteps degrees
CallLats == {180 * j + 20 * s : j \in -CallSteps..CallSteps, s \in {-1, 0, 1}}
                \cap (-180 * CallSteps)..(180 * CallSteps)
CallLons == {180 * j : j \in -CallSteps..(CallSteps + 1)}

CallInit ==
    /\ AppInit
    /\ args \in {<<FromInt(x[1]), FromInt(x[2]), FromInt(x[3]), FromInt(x[4])>> :
                    x \in CallLats \X CallLons \X CallLats \X CallLons}
    /\ result = NoResult
    /\ pc = "call"

Call ==
    /\ pc = "call"
    /\ result' = haversine_distance(args[1], args[2], args[3], args[4])
    /\ pc' = IF result'.raised THEN "raised" ELSE "returned"
    /\ UNCHANGED <<appvars, args>>

CallNext == Call

CallSpec == CallInit /\ [][CallNext]_vars

(***************************************************************************)
(* What the claims speak of.                                               *)
(***************************************************************************)
\* the call the last run of the script made, and the same call with the two
\* coordinates exchanged
Forth == Haversine[<<lat1, lon1, lat2, lon2>>]
Back == Haversine[<<lat2, lon2, lat1, lon1>>]

\* 20015.09 km, pi * 6371 to two decimals, as a float
HalfCircumference == Literal(2001509, 100)

\* the two coordinates are diametrically opposite: the two poles, or opposite
\* latitudes on meridians 180 degrees apart
Antipodal ==
    \/ {lat1, lat2} = {FromInt(90), FromInt(-90)}
    \/ /\ lat2 = Neg(lat1)
       /\ Sub(lon2, lon1) \in {FromInt(180), FromInt(-180)}

\* The central angle by the spherical law of cosines,
\*   cos(angle) = sin(lat1) sin(lat2) + cos(lat1) cos(lat2) cos(lon2 - lon1),
\* in fixed point, from the degrees and not from the floats of the code.
DegToRadFix == (PiFix \div 45) * 64               \* pi / 180 * 2^36
DegFix(x) == IF x.e + 20 >= 0 THEN x.m * 2^(x.e + 20)
             ELSE Quot(x.m, 2^(-(x.e + 20)))       \* degrees * 2^20
RadFix(x) == MulFix(DegFix(x), DegToRadFix)
CosCentralAngle(l1, o1, l2, o2) ==
    MulFix(SinFix(RadFix(l1)), SinFix(RadFix(l2)))
    + MulFix(MulFix(CosFix(RadFix(l1)), CosFix(RadFix(l2))),
             CosFix(RadFix(o2) - RadFix(o1)))

\* km / r, the angle a distance stands for, in fixed point
AngleOf(km) ==
    LET s == 30 - MantBits
        q == (km.m * 2^s) \div r
        sh == km.e + FixBits - s
    IN  IF sh >= 0 THEN q * 2^sh ELSE q \div 2^(-sh)

\* one unit in the last place of a float between 2^13 and 2^14, in hundredths
UlpHundredths == (100 * 2^14) \div 2^MantBits

(***************************************************************************)
(* C1: the distance from A to B is the distance from B to A: the call with *)
(* the coordinates exchanged raises exactly when the call made does, and   *)
(* returns the very same float, so the two agree within any tolerance.     *)
(***************************************************************************)
C1_Symmetry ==
    /\ Back.raised = exception
    /\ ~exception => Back.km = distance_km

C1_Witness ==
    /\ lat1 = FromInt(8) /\ lon1 = FromInt(90)
    /\ lat2 = FromInt(-90) /\ lon2 = lon2_value
    /\ ~exception /\ distance_km # Zero

(***************************************************************************)
(* C2: for identical coordinates the distance returned is 0 (exactly, so   *)
(* within 1e-6 km), and the page shows 0.00 km.                            *)
(***************************************************************************)
C2_Identity ==
    (lat1 = lat2 /\ lon1 = lon2) =>
        ~exception /\ distance_km = Zero /\ metrics[1] = 0

C2_Witness ==
    /\ lat1 = FromInt(8) /\ lat2 = FromInt(8)
    /\ lon1 = FromInt(90) /\ lon2 = FromInt(90)
    /\ distance_km = Zero

(***************************************************************************)
(* C3: for valid coordinates haversine_distance returns, and what it       *)
(* returns is at least 0 and at most 20015.09 km (the float nearest to it).*)
(***************************************************************************)
C3_Range ==
    /\ ~exception
    /\ LessEq(Zero, distance_km)
    /\ LessEq(distance_km, HalfCircumference)

C3_Witness ==
    /\ lat1 = FromInt(8) /\ lat2 = FromInt(-8)
    /\ lon1 = FromInt(-90) /\ lon2 = FromInt(90)
    /\ distance_km = HalfCircumference

(***************************************************************************)
(* C4: the a handed to sqrt lies in [0, 1] (it has been clamped), and the  *)
(* call does not fail, for every pair of valid coordinates.                *)
(***************************************************************************)
C4_Clamped ==
    /\ ~exception
    /\ LessEq(Zero, Forth.a)
    /\ LessEq(Forth.a, FromInt(1))

(***************************************************************************)
(* C5: for diametrically opposite coordinates the call does not fail and   *)
(* returns about 20015.09 km: within 4 * r * 2^(-MantBits / 2) km of it    *)
(* (a is within two units in the last place of 1, and asin(sqrt(a)) moves  *)
(* by the square root of what a moves by there; the tolerance is           *)
(* 0.0003 km for the 53 bits of a Python float), and exactly the float     *)
(* nearest to 20015.09 for (0, 0) and (0, 180).                            *)
(***************************************************************************)
C5_Antipodal ==
    Antipodal =>
        /\ ~exception
        /\ LessEq(Square(Sub(HalfCircumference, distance_km)),
                  Round(16 * r * r, -MantBits, FALSE))
        /\ (lat1 = Zero /\ lon1 = Zero /\ lon2 = FromInt(180))
               => distance_km = HalfCircumference

C5_Witness ==
    /\ lat1 = Zero /\ lon1 = Zero /\ lat2 = Zero /\ lon2 = FromInt(180)
    /\ distance_km = HalfCircumference

\* antipodes for which a is rounded below 1, and the distance falls short
C5_WitnessShort ==
    /\ lat1 = FromInt(6) /\ lat2 = FromInt(-6) /\ Antipodal
    /\ Less(distance_km, HalfCircumference)

(***************************************************************************)
(* C6: the distance returned is r times the central angle of the two       *)
(* coordinates: the cosine of distance / r is the cosine the spherical law *)
(* of cosines gives for the angle, within 16 units in the last place of a  *)
(* float near 1; and from (0, 0) to (0, 90) it is 10007.54 km within one   *)
(* unit in the last place.                                                 *)
(***************************************************************************)
C6_GreatCircle ==
    /\ ~exception
    /\ Abs(CosFix(AngleOf(distance_km)) - CosCentralAngle(lat1, lon1, lat2, lon2))
           <= 2^(FixBits - MantBits + 4)
    /\ (lat1 = Zero /\ lon1 = Zero /\ lat2 = Zero /\ lon2 = FromInt(90))
           => Abs(metrics[1] - 1000754) <= UlpHundredths

C6_Witness ==
    /\ lat1 = Zero /\ lon1 = Zero /\ lat2 = Zero /\ lon2 = FromInt(90)
    /\ ~exception /\ Abs(metrics[1] - 1000754) <= UlpHundredths

(***************************************************************************)
(* C7: called on any four finite numbers, latitudes beyond 90 and          *)
(* longitudes beyond 180 included, haversine_distance returns a number and *)
(* raises no error.                                                        *)
(***************************************************************************)
C7_NeverRaises == pc # "raised"

(***************************************************************************)
(* C8: distance_miles is the float product distance_km * 0.621371, of the  *)
(* very distance_km that haversine_distance returned and that the page     *)
(* shows; the page shows both to two decimals.                             *)
(***************************************************************************)
C8_Miles ==
    /\ ~exception
    /\ distance_km = Forth.km
    /\ distance_miles = Mul(distance_km, Literal(621371, 1000000))
    /\ metrics = <<Fmt2(distance_km), Fmt2(distance_miles)>>

C8_Witness ==
    /\ lat1 = Zero /\ lon1 = Zero /\ lat2 = Zero /\ lon2 = FromInt(-90)
    /\ metrics[1] > 0 /\ metrics[2] > 0 /\ metrics[2] < metrics[1]

(***************************************************************************)
(* C9: after any sequence of changes of the four inputs, the kilometres    *)
(* and miles shown, the two markers, the line and its popup are those of   *)
(* the four values the widgets hold now.                                   *)
(***************************************************************************)
C9_NoStaleResult ==
    /\ ~exception
    /\ metrics = <<Fmt2(Forth.km), Fmt2(Mul(Forth.km, Literal(621371, 1000000)))>>
    /\ map.markers[1].location = <<lat1, lon1>> /\ map.markers[1].popup = <<lat1, lon1>>
    /\ map.markers[2].location = <<lat2, lon2>> /\ map.markers[2].popup = <<lat2, lon2>>
    /\ map.polyline[1].locations = <<<<lat1, lon1>>, <<lat2, lon2>>>>
    /\ map.polyline[1].popup = Fmt2(Forth.km)

C9_Witness ==
    /\ lat1 = FromInt(-8) /\ lon1 = FromInt(180)
    /\ lat2 = FromInt(90) /\ lon2 = FromInt(-90)
    /\ metrics[1] > 0

(***************************************************************************)
(* C10: the map is centred on (center_lat, center_lon), the floats         *)
(* (lat1 + lat2) / 2 and (lon1 + lon2) / 2: twice each is the sum of the   *)
(* two inputs up to the rounding of one float addition (half a unit in the *)
(* last place of a float below 256 for the latitudes, below 512 for the    *)
(* longitudes).                                                            *)
(***************************************************************************)
C10_MapCentre ==
    /\ ~exception
    /\ map.location = <<center_lat, center_lon>>
    /\ center_lat = Half(Add(lat1, lat2))
    /\ center_lon = Half(Add(lon1, lon2))
    /\ Abs(2 * DegFix(center_lat) - (DegFix(lat1) + DegFix(lat2)))
           <= 2^(27 - MantBits)
    /\ Abs(2 * DegFix(center_lon) - (DegFix(lon1) + DegFix(lon2)))
           <= 2^(28 - MantBits)

C10_Witness ==
    /\ lat1 = FromInt(8) /\ lat2 = lat2_value
    /\ lon1 = FromInt(90) /\ lon2 = lon2_value
    /\ map.location = <<Half(Add(FromInt(8), lat2_value)),
                        Half(Add(FromInt(90), lon2_value))>>
    /\ Less(FromInt(8), center_lat) /\ Less(center_lat, lat2_value)
=============================================================================
